---- MODULE Spec2Model ----
(***************************************************************************)
(* Model of internal/home/filter.go: the filter registry (config.Filters,  *)
(* config.WhitelistFilters, nextFilterID), the per-filter update pipeline  *)
(* (update, updateIntl, read, parseFilterContents, finalizeUpdate), the    *)
(* refresh batch (refreshFiltersIfNecessary, refreshFiltersArray) and the  *)
(* two callers of the batch (periodicallyRefreshFilters, refreshFilters).  *)
(*                                                                         *)
(* Bytes are naturals 0..255, strings and file contents are sequences of   *)
(* bytes.  Times are ticks of a logical clock; ZeroTime is time.Time{}.    *)
(* Disk operations (CreateTemp, Write, Rename, Remove) are assumed to      *)
(* succeed; the fetch may fail in every way the code distinguishes.        *)
(***************************************************************************)
EXTENDS Integers, Sequences, FiniteSets, TLC

\* ------------------------------------------------------------------------
\* Bounds of the model
\* ------------------------------------------------------------------------

\* length of the leading prefix the validator inspects (4*1024 in the code,
\* scaled down so that streams longer than the prefix are explored)
FirstChunkSize == 10

\* last tick of the logical clock
MaxTime == 2

\* the largest ID the callers of filterAdd draw from the counter
MaxID == 5

\* the longest sequence of a loaded configuration
MaxLoad == 2

\* the longest blocklist sequence given to deduplicateFilters
MaxDedup == 3

\* the largest number of reader.Read calls that deliver one stream
MaxReads == 3

\* ------------------------------------------------------------------------
\* Bytes and strings
\* ------------------------------------------------------------------------

LF == 10

ZeroTime == 0

Min(a, b) == IF a < b THEN a ELSE b

\* strings.ToLower on one ASCII byte
ToLowerByte(b) == IF b >= 65 /\ b <= 90 THEN b + 32 ELSE b

ToLower(s) == [i \in 1..Len(s) |-> ToLowerByte(s[i])]

\* strings.Contains
Contains(s, sub) ==
    \E i \in 1..(Len(s) - Len(sub) + 1) : SubSeq(s, i, i + Len(sub) - 1) = sub

\* "<html" and "<!doctype"
StrHtml == <<60, 104, 116, 109, 108>>
StrDoctype == <<60, 33, 100, 111, 99, 116, 121, 112, 101>>

\* "! Title:"
StrTitle == <<33, 32, 84, 105, 116, 108, 101, 58>>

\* the bytes strings.TrimSpace removes (ASCII white space)
IsSpace(b) == b \in {9, 10, 11, 12, 13, 32}

RECURSIVE TrimLeft(_)
TrimLeft(s) ==
    IF s # <<>> /\ IsSpace(Head(s)) THEN TrimLeft(Tail(s)) ELSE s

RECURSIVE TrimRight(_)
TrimRight(s) ==
    IF s # <<>> /\ IsSpace(s[Len(s)]) THEN TrimRight(SubSeq(s, 1, Len(s) - 1)) ELSE s

TrimSpace(s) == TrimRight(TrimLeft(s))

\* ------------------------------------------------------------------------
\* isPrintableText (filter.go:431)
\* ------------------------------------------------------------------------

\* isPrintableText that takes 0x7f as well
isPrintableByteWithDel(c) == c >= 32 \/ c = 10 \/ c = 13 \/ c = 9

isPrintableByte(c) == (c >= 32 /\ c # 127) \/ c = 10 \/ c = 13 \/ c = 9

isPrintableText(data, len) == \A i \in 1..len : isPrintableByte(data[i])

\* ------------------------------------------------------------------------
\* Filtering.read (filter.go:491).  A stream is the sequence of results of
\* reader.Read: [data |-> bytes, err |-> "nil" | "EOF" | "ERR"], the last
\* one, and only the last one, with err # "nil".
\* The result is [total, err, written]: written is what tmpFile holds.
\* ------------------------------------------------------------------------

\* firstChunk is a zero-filled buffer of FirstChunkSize bytes
PadChunk(chunk) == chunk \o [i \in 1..(FirstChunkSize - Len(chunk)) |-> 0]

IsHTML(chunk) ==
    LET s == ToLower(PadChunk(chunk))
    IN Contains(s, StrHtml) \/ Contains(s, StrDoctype)

RECURSIVE readLoop(_, _, _, _, _, _)
readLoop(reads, k, htmlTest, firstChunk, written, total) ==
    LET rd == reads[k]
        n == Len(rd.data)
        total2 == total + n
        num == Min(FirstChunkSize - Len(firstChunk), n)
        chunk2 == IF htmlTest THEN firstChunk \o SubSeq(rd.data, 1, num) ELSE firstChunk
        testNow == htmlTest /\ (Len(chunk2) = FirstChunkSize \/ rd.err = "EOF")
    IN IF testNow /\ ~isPrintableText(chunk2, Len(chunk2))
       THEN [total |-> total2, err |-> "nonprintable", written |-> written]
       ELSE IF testNow /\ IsHTML(chunk2)
       THEN [total |-> total2, err |-> "html", written |-> written]
       ELSE LET written2 == written \o rd.data
            IN IF rd.err = "EOF"
               THEN [total |-> total2, err |-> "nil", written |-> written2]
               ELSE IF rd.err # "nil"
               THEN [total |-> total2, err |-> rd.err, written |-> written2]
               ELSE readLoop(reads, k + 1, htmlTest /\ ~testNow, chunk2, written2, total2)

read(reads) == readLoop(reads, 1, TRUE, <<>>, <<>>, 0)

\* ------------------------------------------------------------------------
\* crc32.Update with the IEEE table, narrowed to 16 bits (the reflected
\* polynomial 0xA001 in place of 0xEDB88320): same algorithm, same
\* complement on the way in and out, so the checksum of no bytes is 0.
\* ------------------------------------------------------------------------

CrcPoly == 40961
CrcMask == 65535

RECURSIVE Xor(_, _)
Xor(a, b) ==
    IF a = 0 THEN b
    ELSE IF b = 0 THEN a
    ELSE (((a % 2) + (b % 2)) % 2) + (2 * Xor(a \div 2, b \div 2))

RECURSIVE crcShift(_, _)
crcShift(c, k) ==
    IF k = 0 THEN c
    ELSE crcShift(IF c % 2 = 1 THEN Xor(c \div 2, CrcPoly) ELSE c \div 2, k - 1)

RECURSIVE crcBytes(_, _, _)
crcBytes(c, p, i) ==
    IF c < 0 \/ i > Len(p) THEN c ELSE crcBytes(crcShift(Xor(c, p[i]), 8), p, i + 1)

crcUpdate(crc, p) == CrcMask - crcBytes(CrcMask - crc, p, 1)

\* ------------------------------------------------------------------------
\* parseFilterContents (filter.go:443)
\* ------------------------------------------------------------------------

\* bufio.Reader.ReadString('\n') at position i: the line with its
\* terminator, or the rest of the data when there is no terminator (EOF)
RECURSIVE lineEnd(_, _)
lineEnd(data, i) ==
    IF i > Len(data) THEN Len(data)
    ELSE IF data[i] = LF THEN i
    ELSE lineEnd(data, i + 1)

\* filterTitleRegexp `^! Title: +(.*)$` on a trimmed line: the submatch, or
\* <<>> when the line does not match (a match never has an empty submatch,
\* as the line has no trailing space)
TitleMatch(line) ==
    IF Len(line) > Len(StrTitle) + 1
       /\ SubSeq(line, 1, Len(StrTitle)) = StrTitle
       /\ line[Len(StrTitle) + 1] = 32
    THEN TrimLeft(SubSeq(line, Len(StrTitle) + 1, Len(line)))
    ELSE <<>>

RECURSIVE parseLoop(_, _, _, _, _, _)
parseLoop(data, i, rulesCount, checksum, name, seenTitle) ==
    LET e == lineEnd(data, i)
        raw == SubSeq(data, i, e)
        eof == e = Len(data) /\ (raw = <<>> \/ raw[Len(raw)] # LF)
        cs2 == crcUpdate(checksum, raw)
        line == TrimSpace(raw)
        isTitle == line # <<>> /\ line[1] = 33 /\ TitleMatch(line) # <<>> /\ ~seenTitle
        isRule == line # <<>> /\ line[1] # 33 /\ line[1] # 35
        rc2 == IF isRule THEN rulesCount + 1 ELSE rulesCount
        name2 == IF isTitle THEN TitleMatch(line) ELSE name
    IN IF eof
       THEN [rulesCount |-> rc2, checksum |-> cs2, name |-> name2]
       ELSE parseLoop(data, e + 1, rc2, cs2, name2, seenTitle \/ isTitle)

parseFilterContents(data) == parseLoop(data, 1, 0, 0, <<>>, FALSE)


\* ------------------------------------------------------------------------
\* State
\* ------------------------------------------------------------------------

VARIABLES
    Filters,              \* config.Filters: the blocklist sequence
    WhitelistFilters,     \* config.WhitelistFilters: the allowlist sequence
    nextFilterID,         \* the next-ID counter
    started,              \* Filtering.Init has run
    files,                \* <dataDir>/filters/<ID>.txt: ID -> [data, mtime]
    now,                  \* the clock, in hours
    updateIntervalHours,  \* config.DNS.FiltersUpdateIntervalHours
    refreshStatus,        \* Filtering.refreshStatus: 0 none, 1 in progress
    refreshLock,          \* Filtering.refreshLock: its holder, or NoProc
    pc,                   \* where each goroutine stands
    intval,               \* the periodic loop's interval, in seconds
    bt,                   \* each goroutine's frame of refreshFiltersIfNecessary
    res,                  \* what each goroutine's last refresh returned
    ret                   \* what the last registry operation returned

vars == <<Filters, WhitelistFilters, nextFilterID, started, files, now,
          updateIntervalHours, refreshStatus, refreshLock, pc, intval, bt, res, ret>>

registry == <<Filters, WhitelistFilters, nextFilterID, started>>
sched == <<refreshStatus, refreshLock, pc, intval, bt, res>>

\* the goroutines: the periodic loop and the callers of refreshFilters
Periodic == "P"
Requests == {"R1", "R2"}
Procs == {Periodic} \cup Requests
NoProc == "-"

URLs == {"u1", "u2", "u3"}

\* display names: none, one the user gives ("N"), the one a list declares ("A")
NoName == <<>>
UserName == <<78>>
Names == {NoName, UserName, <<65>>}

\* filterRefresh* (filter.go:361)
filterRefreshForce == 1
filterRefreshAllowlists == 2
filterRefreshBlocklists == 4

\* status* (filter.go:79)
statusFound == 1
statusEnabledChanged == 2
statusURLChanged == 4
statusURLExists == 8
statusUpdateRequired == 16

\* periodicallyRefreshFilters (filter.go:242)
maxInterval == 3600
initialInterval == 5

\* type filter (filter.go:67)
NewFilter(id, url, name, enabled, white) ==
    [ID |-> id, URL |-> url, Name |-> name, Enabled |-> enabled,
     RulesCount |-> 0, LastUpdated |-> ZeroTime, checksum |-> 0, white |-> white]

\* ------------------------------------------------------------------------
\* What a fetch can deliver (filter.go:629-656): a transport error (or a
\* local file that cannot be opened), a status other than 200, or a body,
\* given as the results of the successive reader.Read calls.
\* ------------------------------------------------------------------------

\* "! Title: A\nr\n", "r\n", "<h" "tml", "r" then a read error, and 0x01
BodyTitled == <<33, 32, 84, 105, 116, 108, 101, 58, 32, 65, 10, 114, 10>>
BodyPlain == <<114, 10>>

Rd(data, err) == [data |-> data, err |-> err]

FetchTransport == [kind |-> "transport", reads |-> <<>>]
FetchStatus == [kind |-> "status", reads |-> <<>>]
FetchTitled == [kind |-> "body", reads |-> <<Rd(BodyTitled, "EOF")>>]
FetchPlain == [kind |-> "body", reads |-> <<Rd(BodyPlain, "nil"), Rd(<<>>, "EOF")>>]
FetchHtml == [kind |-> "body", reads |-> <<Rd(<<60, 104>>, "nil"), Rd(<<116, 109, 108>>, "EOF")>>]
FetchBroken == [kind |-> "body", reads |-> <<Rd(<<114>>, "nil"), Rd(<<10>>, "ERR")>>]

Fetches == {FetchTransport, FetchStatus, FetchTitled, FetchPlain, FetchHtml, FetchBroken}

\* the whole body a fetch offers
RECURSIVE Concat(_, _)
Concat(reads, k) == IF k > Len(reads) THEN <<>> ELSE reads[k].data \o Concat(reads, k + 1)

FetchBody(fetch) == Concat(fetch.reads, 1)

\* ------------------------------------------------------------------------
\* The update pipeline: updateIntl, processUpdate, finalizeUpdate, update
\* ------------------------------------------------------------------------

HasFile(fs, id) == id \in DOMAIN fs

PutFile(fs, id, data, mtime) ==
    [k \in DOMAIN fs \cup {id} |->
        IF k = id THEN [data |-> data, mtime |-> mtime] ELSE fs[k]]

\* os.Chtimes(filter.Path(), t, t): an error, logged, when there is no file
Chtimes(fs, id, t) ==
    IF HasFile(fs, id) THEN [fs EXCEPT ![id].mtime = t] ELSE fs

\* stringutil.Coalesce: the first non-empty string
Coalesce(a, b) == IF a # <<>> THEN a ELSE b

\* processUpdate (filter.go:581): [name, rnum, cs, err, written]
processParsed(r, p) ==
    [name |-> p.name, rnum |-> p.rulesCount, cs |-> p.checksum,
     err |-> "nil", written |-> r.written]

processRead(r) ==
    IF r.err # "nil"
    THEN [name |-> <<>>, rnum |-> 0, cs |-> 0, err |-> r.err, written |-> r.written]
    ELSE processParsed(r, parseFilterContents(r.written))

processUpdate(reads) == processRead(read(reads))

\* processUpdate of every fetch and parseFilterContents of every file the
\* pipeline can produce, computed once
Processed == [f \in {g \in Fetches : g.kind = "body"} |-> processUpdate(f.reads)]

Parsed == [d \in {Processed[f].written : f \in DOMAIN Processed} |-> parseFilterContents(d)]

\* the body of updateIntl before its deferred call (filter.go:601-661):
\* the values of ok, err, name, rnum, cs at the return, and the temporary file
updateIntlReturn(flt, u) ==
    [ok |-> u.cs # flt.checksum, err |-> u.err, name |-> u.name,
     rnum |-> u.rnum, cs |-> u.cs, written |-> u.written]

\* updateIntl that takes every body read as a change, whatever its checksum
updateIntlBodyNoGate(flt, fetch) ==
    IF fetch.kind # "body"
    THEN [ok |-> FALSE, err |-> fetch.kind, name |-> <<>>, rnum |-> 0, cs |-> 0,
          written |-> <<>>]
    ELSE updateIntlReturn([checksum |-> -1], Processed[fetch])

\* updateIntl up to its return, for each kind of fetch
updateIntlBody(flt, fetch) ==
    IF fetch.kind # "body"
    THEN [ok |-> FALSE, err |-> fetch.kind, name |-> <<>>, rnum |-> 0, cs |-> 0,
          written |-> <<>>]
    ELSE updateIntlReturn(flt, Processed[fetch])

\* finalizeUpdate (filter.go:542): the temporary file is removed, or renamed
\* to the filter's path and the snapshot takes the name, checksum and count
finalizeUpdate(fs, flt, written, updated, name, rnum, cs, t) ==
    IF ~updated
    THEN [fs |-> fs, flt |-> flt, renamed |-> FALSE]
    ELSE [fs |-> PutFile(fs, flt.ID, written, t),
          flt |-> [flt EXCEPT !.Name = Coalesce(flt.Name, name),
                              !.checksum = cs, !.RulesCount = rnum],
          renamed |-> TRUE]

\* updateIntl (filter.go:601), its deferred function included
updateIntlResult(b, fin) ==
    [ok |-> b.ok /\ b.err = "nil", err |-> b.err, fs |-> fin.fs, flt |-> fin.flt,
     renamed |-> fin.renamed]

updateIntlDeferred(fs, flt, b, t) ==
    updateIntlResult(b, finalizeUpdate(fs, flt, b.written, b.ok, b.name, b.rnum, b.cs, t))

updateIntl(fs, flt, fetch, t) == updateIntlDeferred(fs, flt, updateIntlBody(flt, fetch), t)

\* Filtering.update (filter.go:479)
updateResult(u, id, t) ==
    [ok |-> u.ok, err |-> u.err,
     flt |-> [u.flt EXCEPT !.LastUpdated = t],
     fs |-> IF ~u.ok THEN Chtimes(u.fs, id, t) ELSE u.fs,
     renamed |-> u.renamed]

update(fs, flt, fetch, t) == updateResult(updateIntl(fs, flt, fetch, t), flt.ID, t)

\* Filtering.load (filter.go:664); ioerr: the file is there and cannot be
\* opened or stat'ed
load(fs, filt, ioerr) ==
    IF ~HasFile(fs, filt.ID) THEN [err |-> FALSE, filt |-> filt]
    ELSE IF ioerr THEN [err |-> TRUE, filt |-> filt]
    ELSE LET p == Parsed[fs[filt.ID].data]
         IN [err |-> FALSE,
             filt |-> [filt EXCEPT !.RulesCount = p.rulesCount, !.checksum = p.checksum,
                                   !.LastUpdated = fs[filt.ID].mtime]]

\* filter.unload (filter.go:695)
unload(filt) == [filt EXCEPT !.RulesCount = 0, !.checksum = 0]

\* ------------------------------------------------------------------------
\* The registry: filterExistsNoLock, filterAdd, filterSetProperties
\* ------------------------------------------------------------------------

SeqURLs(fl) == {fl[i].URL : i \in 1..Len(fl)}

\* filterExistsNoLock that looks at the blocklists only
filterExistsBlockOnly(url) == url \in SeqURLs(Filters)

\* filterExistsNoLock (filter.go:154)
filterExistsNoLock(url) == url \in SeqURLs(Filters) \/ url \in SeqURLs(WhitelistFilters)

\* assignUniqueFilterID (filter.go:234) is called by the caller of filterAdd
\* to give the new filter its ID
\* filterAdd (filter.go:170)
filterAdd(url, name, white) ==
    LET f == NewFilter(nextFilterID, url, name, TRUE, white)
    IN /\ started
       /\ nextFilterID <= MaxID
       /\ nextFilterID' = nextFilterID + 1
       /\ IF filterExistsNoLock(f.URL)
          THEN /\ ret' = [op |-> "filterAdd", val |-> FALSE]
               /\ UNCHANGED <<Filters, WhitelistFilters>>
          ELSE /\ ret' = [op |-> "filterAdd", val |-> TRUE]
               /\ IF f.white
                  THEN /\ WhitelistFilters' = Append(WhitelistFilters, f)
                       /\ UNCHANGED Filters
                  ELSE /\ Filters' = Append(Filters, f)
                       /\ UNCHANGED WhitelistFilters
       /\ UNCHANGED <<started, files, now, updateIntervalHours, sched>>

\* loadFilters (filter.go:189): the sequence with its zero IDs assigned and
\* its enabled filters loaded, and the counter
RECURSIVE loadFiltersFrom(_, _, _, _)
loadFiltersFrom(array, k, next, ioerr) ==
    IF k > Len(array) THEN [array |-> array, next |-> next]
    ELSE LET zero == array[k].ID = 0
             f1 == IF zero THEN [array[k] EXCEPT !.ID = next] ELSE array[k]
             f2 == IF f1.Enabled THEN load(files, f1, ioerr).filt ELSE f1
         IN loadFiltersFrom([array EXCEPT ![k] = f2], k + 1,
                            IF zero THEN next + 1 ELSE next, ioerr)

loadFilters(array, next, ioerr) == loadFiltersFrom(array, 1, next, ioerr)

\* deduplicateFilters (filter.go:208) on config.Filters
RECURSIVE dedupFrom(_, _, _)
dedupFrom(fl, k, urls) ==
    IF k > Len(fl) THEN <<>>
    ELSE IF fl[k].URL \notin urls
    THEN <<fl[k]>> \o dedupFrom(fl, k + 1, urls \cup {fl[k].URL})
    ELSE dedupFrom(fl, k + 1, urls)

\* deduplicateFilters that keeps the last entry of each URL
deduplicateKeepLast(fl) ==
    LET keep == {k \in 1..Len(fl) : \A j \in (k + 1)..Len(fl) : fl[j].URL # fl[k].URL}
        nth(i) == CHOOSE k \in keep : Cardinality({j \in keep : j <= k}) = i
    IN [i \in 1..Cardinality(keep) |-> fl[nth(i)]]

deduplicateFilters(fl) == dedupFrom(fl, 1, {})

\* updateUniqueFilterID (filter.go:226)
RECURSIVE updateIDFrom(_, _, _)
updateIDFrom(fl, k, next) ==
    IF k > Len(fl) THEN next
    ELSE updateIDFrom(fl, k + 1, IF next < fl[k].ID THEN fl[k].ID + 1 ELSE next)

updateUniqueFilterID(fl, next) == updateIDFrom(fl, 1, next)

\* Filtering.Init (filter.go:35)
FilteringInit ==
    /\ ~started
    /\ \E ioerr \in BOOLEAN :
          LET b == loadFilters(Filters, nextFilterID, ioerr)
              w == loadFilters(WhitelistFilters, b.next, ioerr)
              d == deduplicateFilters(b.array)
          IN /\ Filters' = d
             /\ WhitelistFilters' = w.array
             /\ nextFilterID' = updateUniqueFilterID(w.array, updateUniqueFilterID(d, w.next))
    /\ started' = TRUE
    /\ UNCHANGED <<files, now, updateIntervalHours, sched, ret>>

\* the body of the loop of filterSetProperties for the entry found
\* (filter.go:105-141): the entry as it is left and the status returned
setProperties(filt, newf, ioerr) ==
    LET named == [filt EXCEPT !.Name = newf.Name]
        urlChanged == filt.URL # newf.URL
    IN IF urlChanged /\ filterExistsNoLock(newf.URL)
       THEN [filt |-> named, r |-> {statusURLExists}]
       ELSE LET f2 == IF urlChanged
                      THEN [named EXCEPT !.URL = newf.URL, !.RulesCount = 0,
                                         !.checksum = 0, !.LastUpdated = ZeroTime]
                      ELSE named
                r2 == IF urlChanged THEN {statusURLChanged, statusUpdateRequired} ELSE {}
                enabledChanged == f2.Enabled # newf.Enabled
                f3 == [f2 EXCEPT !.Enabled = newf.Enabled]
                l == load(files, f3, ioerr)
            IN IF ~enabledChanged
               THEN [filt |-> f2, r |-> r2 \cup {statusFound}]
               ELSE IF ~f3.Enabled
               THEN [filt |-> unload(f3), r |-> r2 \cup {statusEnabledChanged, statusFound}]
               ELSE IF urlChanged
               THEN [filt |-> f3, r |-> r2 \cup {statusEnabledChanged, statusFound}]
               ELSE IF l.err
               THEN [filt |-> [f3 EXCEPT !.LastUpdated = ZeroTime, !.checksum = 0,
                                         !.RulesCount = 0],
                     r |-> r2 \cup {statusEnabledChanged, statusUpdateRequired, statusFound}]
               ELSE [filt |-> l.filt, r |-> r2 \cup {statusEnabledChanged, statusFound}]

\* the first entry of a sequence with the URL, 0 when there is none
FirstWithURL(fl, url) ==
    IF url \in SeqURLs(fl)
    THEN CHOOSE i \in 1..Len(fl) : fl[i].URL = url /\ \A j \in 1..(i - 1) : fl[j].URL # url
    ELSE 0

\* the call of filterSetProperties opens the file of the entry (filter.go:126)
OpensFile(filt, newf) ==
    filt.URL = newf.URL /\ ~filt.Enabled /\ newf.Enabled /\ HasFile(files, filt.ID)

\* filterSetProperties (filter.go:89), under config.Lock; the file it opens
\* can be read or not
filterSetProperties(url, newf, whitelist) ==
    LET fl == IF whitelist THEN WhitelistFilters ELSE Filters
        i == FirstWithURL(fl, url)
    IN /\ started
       /\ \E ioerr \in IF i # 0 /\ OpensFile(fl[i], newf) THEN BOOLEAN ELSE {FALSE} :
             LET o == setProperties(fl[i], newf, ioerr)
                 fl2 == IF i = 0 THEN fl ELSE [fl EXCEPT ![i] = o.filt]
             IN /\ ret' = [op |-> "filterSetProperties",
                           val |-> IF i = 0 THEN {} ELSE o.r]
                /\ IF whitelist
                   THEN WhitelistFilters' = fl2 /\ UNCHANGED Filters
                   ELSE Filters' = fl2 /\ UNCHANGED WhitelistFilters
       /\ UNCHANGED <<nextFilterID, started, files, now, updateIntervalHours, sched>>

\* ------------------------------------------------------------------------
\* The refresh batch: refreshFiltersIfNecessary and refreshFiltersArray,
\* one step per lock region and per filter fetched
\* ------------------------------------------------------------------------

NoFrame ==
    [stage |-> "none", flags |-> {}, important |-> FALSE, uf |-> <<>>, upd |-> <<>>,
     i |-> 0, nfail |-> 0, cnt |-> 0, netError |-> FALSE, netErrorW |-> FALSE,
     tried |-> 0, failed |-> 0, renamed |-> FALSE]

NoResult == [err |-> "none", n |-> 0, netErr |-> FALSE]

\* the stage of a frame works on the allowlists
OnAllow(stage) == stage \in {"selW", "updW", "mrgW"}

\* the stage that follows the call of refreshFiltersArray for one sequence
AfterArray(stage) == IF OnAllow(stage) THEN "fin" ELSE "selW"

\* a filter is due (filter.go:294-301); the zero time is before every time
IsDue(f, force) ==
    /\ f.Enabled
    /\ \/ force
       \/ f.LastUpdated = ZeroTime
       \/ f.LastUpdated + updateIntervalHours <= now

\* the snapshot taken of an entry (filter.go:303-308)
Snapshot(f) ==
    [ID |-> f.ID, URL |-> f.URL, Name |-> f.Name, checksum |-> f.checksum,
     RulesCount |-> 0, LastUpdated |-> ZeroTime]

RECURSIVE SelectFrom(_, _, _)
SelectFrom(fl, k, force) ==
    IF k > Len(fl) THEN <<>>
    ELSE IF IsDue(fl[k], force) THEN <<Snapshot(fl[k])>> \o SelectFrom(fl, k + 1, force)
    ELSE SelectFrom(fl, k + 1, force)

\* the candidates of a sequence (filter.go:289-310), under config.RLock
Candidates(fl, force) == SelectFrom(fl, 1, force)

\* the first part of refreshFiltersArray (filter.go:285-314), or nothing at
\* all when the flags leave the sequence out (filter.go:397, 400)
BatchSelect(p) ==
    LET f == bt[p]
        allow == OnAllow(f.stage)
        wanted == IF allow THEN filterRefreshAllowlists \in f.flags
                           ELSE filterRefreshBlocklists \in f.flags
        cand == Candidates(IF allow THEN WhitelistFilters ELSE Filters,
                           filterRefreshForce \in f.flags)
    IN /\ pc[p] = "batch"
       /\ f.stage \in {"selB", "selW"}
       /\ bt' = [bt EXCEPT ![p] =
                   IF ~wanted \/ cand = <<>>
                   THEN [f EXCEPT !.stage = AfterArray(f.stage)]
                   ELSE [f EXCEPT !.stage = IF allow THEN "updW" ELSE "updB",
                                  !.uf = cand, !.upd = <<>>, !.i = 1, !.nfail = 0]]
       /\ UNCHANGED <<registry, files, now, updateIntervalHours, refreshStatus,
                      refreshLock, pc, intval, res, ret>>

\* one turn of the loop of filter.go:317-326 and, after the last one, the
\* test of filter.go:328
UpdatedFrame(f, u, failed) ==
    [f EXCEPT !.uf[f.i] = u.flt, !.upd = Append(f.upd, u.ok),
              !.nfail = IF failed THEN f.nfail + 1 ELSE f.nfail,
              !.i = f.i + 1, !.tried = f.tried + 1,
              !.failed = IF failed THEN f.failed + 1 ELSE f.failed,
              !.renamed = u.renamed]

\* the frame after the last filter of the sequence: the return of
\* refreshFiltersArray when every update failed, or on to the merge
AfterUpdates(f, f2, allow) ==
    IF f.i < Len(f.uf) THEN f2
    ELSE IF f2.nfail = Len(f.uf)
    THEN [f2 EXCEPT !.stage = AfterArray(f.stage), !.uf = <<>>, !.upd = <<>>,
                    !.i = 0, !.nfail = 0,
                    !.netError = IF allow THEN f.netError ELSE TRUE,
                    !.netErrorW = IF allow THEN TRUE ELSE f.netErrorW]
    ELSE [f2 EXCEPT !.stage = IF allow THEN "mrgW" ELSE "mrgB", !.i = 1]

UpdateStep(p, f, u) ==
    /\ files' = u.fs
    /\ bt' = [bt EXCEPT ![p] =
                AfterUpdates(f, UpdatedFrame(f, u, u.err # "nil"), OnAllow(f.stage))]

BatchUpdate(p, fetch) ==
    /\ pc[p] = "batch"
    /\ bt[p].stage \in {"updB", "updW"}
    /\ UpdateStep(p, bt[p], update(files, bt[p].uf[bt[p].i], fetch, now))
    /\ UNCHANGED <<registry, now, updateIntervalHours, refreshStatus, refreshLock,
                   pc, intval, res, ret>>

\* the merge that matches an entry by its ID alone
MergeEntryByID(e, uf, updated) ==
    IF e.ID # uf.ID THEN e
    ELSE IF ~updated THEN [e EXCEPT !.LastUpdated = uf.LastUpdated]
    ELSE [e EXCEPT !.LastUpdated = uf.LastUpdated, !.Name = uf.Name,
                   !.RulesCount = uf.RulesCount, !.checksum = uf.checksum]

\* the merge that clears the count and the checksum of an entry whose
\* snapshot was not updated
MergeEntryClearing(e, uf, updated) ==
    IF e.ID # uf.ID \/ e.URL # uf.URL THEN e
    ELSE IF ~updated
    THEN [e EXCEPT !.LastUpdated = uf.LastUpdated, !.RulesCount = 0, !.checksum = 0]
    ELSE [e EXCEPT !.LastUpdated = uf.LastUpdated, !.Name = uf.Name,
                   !.RulesCount = uf.RulesCount, !.checksum = uf.checksum]

\* the entry after the merge of a snapshot (filter.go:339-353)
MergeEntry(e, uf, updated) ==
    IF e.ID # uf.ID \/ e.URL # uf.URL THEN e
    ELSE IF ~updated THEN [e EXCEPT !.LastUpdated = uf.LastUpdated]
    ELSE [e EXCEPT !.LastUpdated = uf.LastUpdated, !.Name = uf.Name,
                   !.RulesCount = uf.RulesCount, !.checksum = uf.checksum]

MergeSeq(fl, uf, updated) == [k \in 1..Len(fl) |-> MergeEntry(fl[k], uf, updated)]

\* the entries a merge counts as updated (filter.go:353)
MergeCount(fl, uf, updated) ==
    IF updated
    THEN Cardinality({k \in 1..Len(fl) : fl[k].ID = uf.ID /\ fl[k].URL = uf.URL})
    ELSE 0

\* one turn of the loop of filter.go:333-356, under config.Lock
BatchMerge(p) ==
    LET f == bt[p]
        allow == OnAllow(f.stage)
        uf == f.uf[f.i]
        updated == f.upd[f.i]
        fl == IF allow THEN WhitelistFilters ELSE Filters
        f2 == [f EXCEPT !.cnt = f.cnt + MergeCount(fl, uf, updated), !.i = f.i + 1]
    IN /\ pc[p] = "batch"
       /\ f.stage \in {"mrgB", "mrgW"}
       /\ IF allow
          THEN WhitelistFilters' = MergeSeq(fl, uf, updated) /\ UNCHANGED Filters
          ELSE Filters' = MergeSeq(fl, uf, updated) /\ UNCHANGED WhitelistFilters
       /\ bt' = [bt EXCEPT ![p] =
                   IF f.i < Len(f.uf) THEN f2
                   ELSE [f2 EXCEPT !.stage = AfterArray(f.stage), !.uf = <<>>, !.upd = <<>>,
                                   !.i = 0, !.nfail = 0]]
       /\ UNCHANGED <<nextFilterID, started, files, now, updateIntervalHours,
                      refreshStatus, refreshLock, pc, intval, res, ret>>

\* what refreshFiltersIfNecessary returns (filter.go:409-427)
BatchResult(f) ==
    IF f.netError /\ f.netErrorW
    THEN [n |-> 0, netErr |-> TRUE]
    ELSE [n |-> f.cnt, netErr |-> FALSE]

\* ------------------------------------------------------------------------
\* The callers: periodicallyRefreshFilters and refreshFilters
\* ------------------------------------------------------------------------

\* refreshLock.Lock() that does not wait
LockFreeAlways(p) == TRUE

\* refreshLock.Lock() returns
LockFree(p) == refreshLock = NoProc

\* refreshLock.Lock() (filter.go:247, 278) and the entry into the batch
Lock(p) ==
    /\ pc[p] = "lock"
    /\ LockFree(p)
    /\ refreshLock' = p
    /\ pc' = [pc EXCEPT ![p] = "batch"]
    /\ bt' = [bt EXCEPT ![p].stage = "selB"]
    /\ UNCHANGED <<registry, files, now, updateIntervalHours, refreshStatus, intval,
                   res, ret>>

\* the return of refreshFiltersIfNecessary and refreshLock.Unlock()
\* (filter.go:248-249, 279-280)
Unlock(p) ==
    /\ pc[p] = "batch"
    /\ bt[p].stage = "fin"
    /\ refreshLock' = NoProc
    /\ pc' = [pc EXCEPT ![p] = "clear"]
    /\ res' = [res EXCEPT ![p] = [err |-> "none", n |-> BatchResult(bt[p]).n,
                                  netErr |-> BatchResult(bt[p]).netErr]]
    /\ UNCHANGED <<registry, files, now, updateIntervalHours, refreshStatus, intval,
                   bt, ret>>

\* the interval doubled without the cap of filter.go:258
NextIntervalNoCap(iv, isNetworkErr) ==
    IF ~isNetworkErr THEN maxInterval ELSE iv * 2

\* the interval after a batch (filter.go:251-261)
NextInterval(iv, isNetworkErr) ==
    IF ~isNetworkErr THEN maxInterval
    ELSE IF iv * 2 > maxInterval THEN maxInterval ELSE iv * 2

\* the top of the loop of periodicallyRefreshFilters (filter.go:245-246):
\* the batch is entered, or skipped and the loop sleeps again
PeriodicWake ==
    /\ pc[Periodic] = "sleep"
    /\ IF updateIntervalHours # 0 /\ refreshStatus = 0
       THEN /\ refreshStatus' = 1
            /\ pc' = [pc EXCEPT ![Periodic] = "lock"]
            /\ bt' = [bt EXCEPT ![Periodic] =
                        [NoFrame EXCEPT !.flags = {filterRefreshBlocklists,
                                                   filterRefreshAllowlists}]]
       ELSE UNCHANGED <<refreshStatus, pc, bt>>
    /\ res' = [res EXCEPT ![Periodic] = NoResult]
    /\ UNCHANGED <<registry, files, now, updateIntervalHours, refreshLock, intval, ret>>

\* f.refreshStatus = 0 and the new interval (filter.go:250-263)
PeriodicClear ==
    /\ pc[Periodic] = "clear"
    /\ refreshStatus' = 0
    /\ intval' = NextInterval(intval, res[Periodic].netErr)
    /\ pc' = [pc EXCEPT ![Periodic] = "sleep"]
    /\ bt' = [bt EXCEPT ![Periodic] = NoFrame]
    /\ UNCHANGED <<registry, files, now, updateIntervalHours, refreshLock, res, ret>>

\* the flags the callers of refreshFilters pass
RequestFlags ==
    {{filterRefreshBlocklists, filterRefreshAllowlists},
     {filterRefreshForce, filterRefreshBlocklists}}

\* the test of filter.go:274 left out
ProceedsAlways(important, set) == TRUE

\* a request gets past the test of filter.go:274
Proceeds(important, set) == important \/ set

\* refreshFilters up to its test (filter.go:273-276)
Call(r, flags, important) ==
    LET set == refreshStatus = 0
    IN /\ pc[r] = "idle"
       /\ refreshStatus' = 1
       /\ IF Proceeds(important, set)
          THEN /\ pc' = [pc EXCEPT ![r] = "lock"]
               /\ bt' = [bt EXCEPT ![r] = [NoFrame EXCEPT !.flags = flags,
                                                          !.important = important]]
               /\ res' = [res EXCEPT ![r] = NoResult]
          ELSE /\ res' = [res EXCEPT ![r] = [NoResult EXCEPT !.err = "AlreadyRunning"]]
               /\ UNCHANGED <<pc, bt>>
       /\ UNCHANGED <<registry, files, now, updateIntervalHours, refreshLock, intval, ret>>

\* the return of refreshFilters without f.refreshStatus = 0
ReturnKeepsFlag(r) ==
    /\ pc[r] = "clear"
    /\ pc' = [pc EXCEPT ![r] = "idle"]
    /\ res' = [res EXCEPT ![r].err = "nil"]
    /\ bt' = [bt EXCEPT ![r] = NoFrame]
    /\ UNCHANGED <<registry, files, now, updateIntervalHours, refreshStatus, refreshLock,
                   intval, ret>>

\* f.refreshStatus = 0 and the return of refreshFilters (filter.go:281-282)
Return(r) ==
    /\ pc[r] = "clear"
    /\ refreshStatus' = 0
    /\ pc' = [pc EXCEPT ![r] = "idle"]
    /\ res' = [res EXCEPT ![r].err = "nil"]
    /\ bt' = [bt EXCEPT ![r] = NoFrame]
    /\ UNCHANGED <<registry, files, now, updateIntervalHours, refreshLock, intval, ret>>

\* an hour passes
Tick ==
    /\ now < MaxTime
    /\ now' = now + 1
    /\ UNCHANGED <<registry, files, updateIntervalHours, sched, ret>>

\* ------------------------------------------------------------------------
\* Specifications
\* ------------------------------------------------------------------------

NoRet == [op |-> "none", val |-> FALSE]

\* the registry after Filtering.Init on a configuration of one blocklist and
\* one allowlist, neither fetched yet
InitRegistry ==
    /\ Filters = <<NewFilter(1, "u1", NoName, TRUE, FALSE)>>
    /\ WhitelistFilters = <<NewFilter(2, "u2", UserName, TRUE, TRUE)>>
    /\ nextFilterID = 3
    /\ started = TRUE
    /\ files = <<>>
    /\ ret = NoRet

InitSched ==
    /\ refreshStatus = 0
    /\ refreshLock = NoProc
    /\ pc = [p \in Procs |-> IF p = Periodic THEN "sleep" ELSE "idle"]
    /\ intval = initialInterval
    /\ bt = [p \in Procs |-> NoFrame]
    /\ res = [p \in Procs |-> NoResult]

Init ==
    /\ InitRegistry
    /\ InitSched
    /\ now = 1
    /\ updateIntervalHours \in {0, 1}

\* the fetches of the specification of the callers: one that fails and one
\* that delivers a list
SchedFetches == {FetchTransport, FetchTitled}

Batch(p, fetches) ==
    \/ BatchSelect(p)
    \/ \E fetch \in fetches : BatchUpdate(p, fetch)
    \/ BatchMerge(p)

Next ==
    \/ PeriodicWake
    \/ PeriodicClear
    \/ \E r \in Requests, flags \in RequestFlags, important \in BOOLEAN :
          Call(r, flags, important)
    \/ \E r \in Requests : Return(r)
    \/ \E p \in Procs : Lock(p)
    \/ \E p \in Procs : Batch(p, SchedFetches)
    \/ \E p \in Procs : Unlock(p)

Spec == Init /\ [][Next]_vars

\* One caller of the batch, with every fetch, while the user changes the
\* properties of the blocklist filter and time passes; the allowlist filter
\* is disabled
BatchURLs == {"u1", "u3"}
BatchProps == [Name : {NoName, UserName}, URL : BatchURLs, Enabled : BOOLEAN]

InitBatch ==
    /\ Filters = <<NewFilter(1, "u1", NoName, TRUE, FALSE)>>
    /\ WhitelistFilters = <<NewFilter(2, "u2", UserName, FALSE, TRUE)>>
    /\ nextFilterID = 3
    /\ started = TRUE
    /\ files = <<>>
    /\ ret = NoRet
    /\ InitSched
    /\ now = 1
    /\ updateIntervalHours = 1

NextBatch ==
    \/ \E flags \in RequestFlags : Call("R1", flags, FALSE)
    \/ Return("R1")
    \/ Lock("R1")
    \/ Batch("R1", Fetches)
    \/ Unlock("R1")
    \/ \E url \in BatchURLs, newf \in BatchProps :
          filterSetProperties(url, newf, FALSE)
    \/ Tick

SpecBatch == InitBatch /\ [][NextBatch]_vars

\* Only callers of refreshFilters that are not important: no periodic loop,
\* no important request
NextOnDemand ==
    \/ \E r \in Requests, flags \in RequestFlags : Call(r, flags, FALSE)
    \/ \E r \in Requests : Return(r)
    \/ \E r \in Requests : Lock(r)
    \/ \E r \in Requests : Batch(r, SchedFetches)
    \/ \E r \in Requests : Unlock(r)

SpecOnDemand == Init /\ [][NextOnDemand]_vars

\* The registry alone: filterAdd and filterSetProperties in any order, on a
\* registry of one blocklist whose file is on disk and one allowlist
OneFile == PutFile(<<>>, 1, BodyTitled, 1)

InitReg ==
    /\ files = OneFile
    /\ Filters = <<load(OneFile, NewFilter(1, "u1", NoName, TRUE, FALSE), FALSE).filt>>
    /\ WhitelistFilters = <<NewFilter(2, "u2", UserName, TRUE, TRUE)>>
    /\ nextFilterID = 3
    /\ started = TRUE
    /\ ret = NoRet
    /\ InitSched
    /\ now = 1
    /\ updateIntervalHours = 1

RegProps == [Name : {UserName}, URL : URLs, Enabled : BOOLEAN]

NextReg ==
    \/ \E url \in URLs, white \in BOOLEAN : filterAdd(url, NoName, white)
    \/ \E url \in URLs, newf \in RegProps, whitelist \in BOOLEAN :
          filterSetProperties(url, newf, whitelist)

SpecReg == InitReg /\ [][NextReg]_vars

\* Filtering.Init on a loaded configuration, and filterAdd after it.  The
\* configuration is any two sequences of at most MaxLoad filters with IDs
\* 0 (none), 1 or 2; the counter starts below, at or above these IDs.
LoadedIDs == {0, 1, 2}
LoadedURLs == {"u1", "u2"}
Seeds == {1, 2, 3}

LoadedSeqs(enabled, white) ==
    UNION {[1..n -> {NewFilter(id, url, NoName, enabled, white) :
                        id \in LoadedIDs, url \in LoadedURLs}] : n \in 0..MaxLoad}

InitLoad ==
    /\ \E enabled \in BOOLEAN :
          /\ Filters \in LoadedSeqs(enabled, FALSE)
          /\ WhitelistFilters \in LoadedSeqs(enabled, TRUE)
    /\ nextFilterID \in Seeds
    /\ started = FALSE
    /\ files = OneFile
    /\ ret = NoRet
    /\ InitSched
    /\ now = 1
    /\ updateIntervalHours = 1

NextLoad ==
    \/ FilteringInit
    \/ \E url \in URLs, white \in BOOLEAN : filterAdd(url, NoName, white)

SpecLoad == InitLoad /\ [][NextLoad]_vars

\* Filtering.Init on blocklists that repeat URLs: up to MaxDedup entries
\* without an ID, told apart by the IDs that loadFilters gives them
DedupEntries(white) ==
    {NewFilter(0, url, name, TRUE, white) : url \in LoadedURLs, name \in Names}

InitDedup ==
    /\ Filters \in UNION {[1..n -> DedupEntries(FALSE)] : n \in 0..MaxDedup}
    /\ WhitelistFilters \in UNION {[1..n -> DedupEntries(TRUE)] : n \in 0..1}
    /\ nextFilterID = 1
    /\ started = FALSE
    /\ files = OneFile
    /\ ret = NoRet
    /\ InitSched
    /\ now = 1
    /\ updateIntervalHours = 1

SpecDedup == InitDedup /\ [][FilteringInit]_vars

\* Filtering.read on the streams a reader can deliver: up to MaxReads reads
\* of the pieces below, the last one with io.EOF or with an error.  The
\* pieces: nothing, "r\n", five "r" and 0x80, "<h", "tml", "<HT", "ML",
\* "<!DoC", "TYPE", 0x01, 0x7f, and tab with carriage return.
Chunks ==
    {<<>>, <<114, 10>>, <<114, 114, 114, 114, 114, 128>>,
     <<60, 104>>, <<116, 109, 108>>, <<60, 72, 84>>, <<77, 76>>,
     <<60, 33, 68, 111, 67>>, <<84, 89, 80, 69>>,
     <<1>>, <<127>>, <<9, 13>>}

Streams ==
    UNION {{s \in [1..n -> [data : Chunks, err : {"nil", "EOF", "ERR"}]] :
               \A k \in 1..n : (s[k].err = "nil") <=> (k < n)} : n \in 1..MaxReads}

InitRead ==
    /\ Filters = <<NewFilter(1, "u1", NoName, TRUE, FALSE)>>
    /\ WhitelistFilters = <<>>
    /\ nextFilterID = 2
    /\ started = TRUE
    /\ files = <<>>
    /\ InitSched
    /\ now = 1
    /\ updateIntervalHours = 1
    /\ \E s \in Streams : ret = [op |-> "stream", val |-> s]

\* Filtering.read on the stream, its result kept with the stream
ReadStream ==
    /\ ret.op = "stream"
    /\ ret' = [op |-> "read", val |-> [reads |-> ret.val, out |-> read(ret.val)]]
    /\ UNCHANGED <<registry, files, now, updateIntervalHours, sched>>

SpecRead == InitRead /\ [][ReadStream]_vars

\* Forced refreshes of two blocklists, the first with its list on disk, so
\* that one batch holds an attempt that fails and one that does not
PairFetches == {FetchTransport, FetchTitled, FetchPlain, FetchBroken}

InitPair ==
    /\ files = OneFile
    /\ Filters = <<load(OneFile, NewFilter(1, "u1", NoName, TRUE, FALSE), FALSE).filt,
                   NewFilter(3, "u3", NoName, TRUE, FALSE)>>
    /\ WhitelistFilters = <<>>
    /\ nextFilterID = 4
    /\ started = TRUE
    /\ ret = NoRet
    /\ InitSched
    /\ now = 1
    /\ updateIntervalHours = 1

NextPair ==
    \/ Call("R1", {filterRefreshForce, filterRefreshBlocklists}, FALSE)
    \/ Return("R1")
    \/ Lock("R1")
    \/ Batch("R1", PairFetches)
    \/ Unlock("R1")
    \/ Tick

SpecPair == InitPair /\ [][NextPair]_vars

\* The periodic loop and the two callers under fair scheduling: sync.Mutex
\* hands the lock to a waiter that keeps waiting (starvation mode), a
\* goroutine that can step does step, and every fetch ends.  Requests and
\* wake-ups are not forced to happen.
FairFlags == {filterRefreshBlocklists, filterRefreshAllowlists}

\* the registry after Filtering.Init on a configuration of one blocklist
InitFair ==
    /\ Filters = <<NewFilter(1, "u1", NoName, TRUE, FALSE)>>
    /\ WhitelistFilters = <<>>
    /\ nextFilterID = 2
    /\ started = TRUE
    /\ files = <<>>
    /\ ret = NoRet
    /\ InitSched
    /\ now = 1
    /\ updateIntervalHours = 1

NextFair ==
    \/ PeriodicWake
    \/ PeriodicClear
    \/ \E r \in Requests, important \in BOOLEAN : Call(r, FairFlags, important)
    \/ \E r \in Requests : Return(r)
    \/ \E p \in Procs : Lock(p)
    \/ \E p \in Procs : Batch(p, SchedFetches)
    \/ \E p \in Procs : Unlock(p)

Fairness ==
    /\ \A p \in Procs : SF_vars(Lock(p))
    /\ \A p \in Procs : WF_vars(Batch(p, SchedFetches))
    /\ \A p \in Procs : WF_vars(Unlock(p))
    /\ \A r \in Requests : WF_vars(Return(r))
    /\ WF_vars(PeriodicClear)

SpecFair == InitFair /\ [][NextFair]_vars /\ Fairness

\* ------------------------------------------------------------------------
\* Claims
\* ------------------------------------------------------------------------

\* a goroutine is between its compare-and-swap and its reset of the flag
Active(p) == pc[p] \in {"lock", "batch", "clear"}

\* the data of the file of a filter, NoData when there is none
NoData == <<0>>
DataOf(fs, id) == IF HasFile(fs, id) THEN fs[id].data ELSE NoData

\* the step is one turn of the update loop, or of the merge loop, of p
UpdateStepOf(p) ==
    pc[p] = "batch" /\ bt[p].stage \in {"updB", "updW"} /\ bt'[p].tried = bt[p].tried + 1

MergeStepOf(p) ==
    pc[p] = "batch" /\ bt[p].stage \in {"mrgB", "mrgW"} /\ bt'[p] # bt[p] /\ BatchMerge(p)

\* C1: an update attempt that fails leaves the content of the file at the
\* filter's path as it was, whatever the previous checksum; the content
\* changes only by an update that succeeds with a checksum different from
\* the previous one, and then to the complete content fetched.
C1_TargetUntouchedOnFailure ==
    [][\A p \in Procs, fetch \in Fetches :
          (UpdateStepOf(p) /\ BatchUpdate(p, fetch)) =>
             LET uf == bt[p].uf[bt[p].i]
                 u == update(files, uf, fetch, now)
             IN /\ u.err # "nil" => DataOf(files', uf.ID) = DataOf(files, uf.ID)
                /\ DataOf(files', uf.ID) # DataOf(files, uf.ID) =>
                      /\ u.err = "nil"
                      /\ fetch.kind = "body"
                      /\ Parsed[FetchBody(fetch)].checksum # uf.checksum
                      /\ DataOf(files', uf.ID) = FetchBody(fetch)]_vars

\* C2: at most one execution of refreshFiltersIfNecessary is in progress at
\* any time, whatever the interleaving of the periodic loop and the requests.
C2_OneBatchAtATime == Cardinality({p \in Procs : pc[p] = "batch"}) <= 1

\* one goroutine runs the batch while another waits for the mutex
C2_Witness == \E p, q \in Procs : pc[p] = "batch" /\ pc[q] = "lock" /\ refreshLock = p

\* C3: of two overlapping requests that are not important, with no other
\* refresh active, exactly one runs a batch; the other returns the
\* AlreadyRunning error and never waits for the batch mutex.
C3_SingleFlight ==
    /\ [](\A r \in Requests :
            /\ Active(r) => \A q \in Requests \ {r} : ~Active(q)
            /\ pc[r] = "lock" => refreshLock = NoProc)
    /\ [][\A r \in Requests :
            (pc[r] = "idle" /\ res'[r] # res[r] /\ \E q \in Requests \ {r} : Active(q))
               => pc'[r] = "idle" /\ res'[r].err = "AlreadyRunning"]_vars

\* one request runs the batch and the other has been turned away
C3_Witness ==
    \E r, q \in Requests :
       pc[r] = "batch" /\ pc[q] = "idle" /\ res[q].err = "AlreadyRunning"

\* C4: a request that is not important and starts while a batch runs or
\* waits for the batch mutex returns AlreadyRunning at once and never
\* queues on the mutex; the flag is set for as long as any batch runs.
C4_FailFast ==
    /\ []((\E p \in Procs : pc[p] = "batch") => refreshStatus = 1)
    /\ [][\A r \in Requests :
            (pc[r] = "idle" /\ pc'[r] = "lock" /\ ~bt'[r].important)
               => \A q \in Procs \ {r} : pc[q] \notin {"lock", "batch"}]_vars

\* C5: a batch over blocklists and allowlists returns the network-error
\* signal exactly when it had at least one candidate and every candidate
\* failed, however the candidates are spread over the two sequences.
C5_NetErrorIffAllFailed ==
    \A p \in Procs :
       (pc[p] = "clear"
        /\ {filterRefreshBlocklists, filterRefreshAllowlists} \subseteq bt[p].flags)
          => (res[p].netErr <=> (bt[p].tried >= 1 /\ bt[p].failed = bt[p].tried))

\* the periodic loop goes from the reset of the flag to its sleep
PeriodicBatchDone == pc[Periodic] = "clear" /\ pc'[Periodic] = "sleep"

\* what one step does to the interval
IntervalStep ==
    /\ (PeriodicBatchDone /\ res[Periodic].netErr)
          => intval' = (IF 2 * intval > 3600 THEN 3600 ELSE 2 * intval)
    /\ (PeriodicBatchDone /\ ~res[Periodic].netErr) => intval' = 3600
    /\ ~PeriodicBatchDone => intval' = intval
    /\ intval' >= intval
    /\ intval = 3600 => intval' = 3600

\* C6: the interval starts at 5, is doubled up to 3600 by every batch run
\* that reports the network-error signal, is set to 3600 by every batch run
\* that does not, and is left alone otherwise; it stays in 5..3600, never
\* decreases and stays 3600 once a batch has run without the signal.
C6_Backoff ==
    /\ intval = initialInterval
    /\ [](intval >= initialInterval /\ intval <= maxInterval)
    /\ [][IntervalStep]_vars

\* three batches in a row have failed entirely: 5, 10, 20, 40
C6_Witness == pc[Periodic] = "sleep" /\ res[Periodic].netErr /\ intval = 40

\* C7: the merge of a batch never changes the Name of an entry whose Name
\* is not empty at that moment, also when filterSetProperties changes the
\* Name while the fetch is in flight.
C7_UserNameKept ==
    [][(\E p \in Procs : MergeStepOf(p)) =>
          /\ \A k \in 1..Len(Filters) :
                Filters[k].Name # NoName => Filters'[k].Name = Filters[k].Name
          /\ \A k \in 1..Len(WhitelistFilters) :
                WhitelistFilters[k].Name # NoName
                   => WhitelistFilters'[k].Name = WhitelistFilters[k].Name]_vars

\* the fetch delivers, whole and accepted, the bytes of the file of the
\* snapshot, and the snapshot has the checksum of that file
SameAsCommitted(uf, fetch) ==
    /\ fetch.kind = "body"
    /\ Processed[fetch].err = "nil"
    /\ HasFile(files, uf.ID)
    /\ files[uf.ID].data = FetchBody(fetch)
    /\ uf.checksum = Parsed[files[uf.ID].data].checksum

\* the pipeline run again on the committed bytes: no rename, no change
\* reported, no failure counted, the file as it was, the time taken
RerunStep ==
    \A p \in Procs, fetch \in Fetches :
       (UpdateStepOf(p) /\ BatchUpdate(p, fetch)
        /\ SameAsCommitted(bt[p].uf[bt[p].i], fetch)) =>
          LET i == bt[p].i
          IN /\ ~bt'[p].renamed
             /\ bt'[p].upd[i] = FALSE
             /\ bt'[p].failed = bt[p].failed
             /\ files'[bt[p].uf[i].ID].data = files[bt[p].uf[i].ID].data
             /\ bt'[p].uf[i].LastUpdated = now

\* the merge of a snapshot that reported no change
UnchangedMergeStep ==
    \A p \in Procs :
       (MergeStepOf(p) /\ ~bt[p].upd[bt[p].i]) =>
          LET uf == bt[p].uf[bt[p].i]
              old == IF OnAllow(bt[p].stage) THEN WhitelistFilters ELSE Filters
              new == IF OnAllow(bt[p].stage) THEN WhitelistFilters' ELSE Filters'
          IN \A k \in 1..Len(old) :
                /\ new[k].RulesCount = old[k].RulesCount
                /\ new[k].Name = old[k].Name
                /\ new[k].checksum = old[k].checksum
                /\ (old[k].ID = uf.ID /\ old[k].URL = uf.URL)
                      => new[k].LastUpdated = uf.LastUpdated

\* C8: the pipeline run again on the bytes of the last committed update
\* renames nothing and reports no change, and its merge leaves RulesCount,
\* Name and Checksum of the entry as they are and sets LastUpdated to the
\* time of the attempt.
C8_IdempotentRefresh == [][RerunStep /\ UnchangedMergeStep]_vars

\* a batch has tried one filter at hour 2, nothing failed, nothing changed,
\* and the merge has set LastUpdated of the entry, which keeps its checksum
C8_Witness ==
    /\ bt["R1"].stage = "selW"
    /\ bt["R1"].tried = 1 /\ bt["R1"].failed = 0 /\ bt["R1"].cnt = 0
    /\ ~bt["R1"].renamed
    /\ now = 2
    /\ Len(Filters) = 1
    /\ Filters[1].checksum # 0 /\ Filters[1].LastUpdated = 2
    /\ HasFile(files, Filters[1].ID) /\ files[Filters[1].ID].mtime = 2

\* no two entries of the two sequences together have the same URL
AllFilters == Filters \o WhitelistFilters

UniqueURLs ==
    \A i, j \in 1..Len(AllFilters) : i # j => AllFilters[i].URL # AllFilters[j].URL

\* filterAdd refuses a URL that is in either sequence and changes nothing;
\* it appends any other to the sequence its designation selects
AddStep ==
    \A url \in URLs, name \in Names, white \in BOOLEAN :
       (nextFilterID' # nextFilterID /\ filterAdd(url, name, white)) =>
          IF url \in SeqURLs(Filters) \cup SeqURLs(WhitelistFilters)
          THEN ret'.val = FALSE /\ Filters' = Filters /\ WhitelistFilters' = WhitelistFilters
          ELSE /\ ret'.val = TRUE
               /\ LET new == IF white THEN WhitelistFilters' ELSE Filters'
                      old == IF white THEN WhitelistFilters ELSE Filters
                  IN /\ Len(new) = Len(old) + 1
                     /\ SubSeq(new, 1, Len(old)) = old
                     /\ new[Len(new)].URL = url
               /\ IF white THEN Filters' = Filters
                           ELSE WhitelistFilters' = WhitelistFilters

\* C9: from a registry without a repeated URL, filterAdd and
\* filterSetProperties in any order never produce two entries with the same
\* URL; filterAdd returns false and changes nothing for a URL that is
\* present, and appends one entry to the designated sequence otherwise.
C9_AddKeepsURLsUnique == []UniqueURLs /\ [][AddStep]_vars

\* an add was refused after another one, to the allowlists, went through
C9_Witness ==
    /\ ret.op = "filterAdd" /\ ret.val = FALSE
    /\ Len(WhitelistFilters) = 2 /\ WhitelistFilters[2].URL = "u3"

\* C10: after Filtering.Init no two entries of the two sequences together
\* have the same URL, whatever the loaded configuration.
C10_UniqueAfterInit == started => UniqueURLs

\* the IDs of a sequence
SeqIDs(fl) == {fl[i].ID : i \in 1..Len(fl)}

\* the loaded configuration has no ID other than 0 twice
LoadedIDsDistinct ==
    \A i, j \in 1..Len(AllFilters) :
       (i # j /\ AllFilters[i].ID # 0) => AllFilters[i].ID # AllFilters[j].ID

\* the IDs that loadFilters gives to the entries of a sequence loaded with ID 0
AssignedIDs(loaded, after) == {after[k].ID : k \in {n \in 1..Len(loaded) : loaded[n].ID = 0}}

\* what Filtering.Init leaves, seen from the loaded configuration and the seed
InitIDsStep ==
    (~started /\ started' /\ LoadedIDsDistinct) =>
       LET all == Filters' \o WhitelistFilters'
           b == loadFilters(Filters, nextFilterID, FALSE)
           w == loadFilters(WhitelistFilters, b.next, FALSE)
           given == AssignedIDs(Filters, b.array) \cup AssignedIDs(WhitelistFilters, w.array)
       IN /\ \A i, j \in 1..Len(all) : i # j => all[i].ID # all[j].ID
          /\ \A id \in given :
                /\ id > nextFilterID
                /\ \A old \in SeqIDs(AllFilters) : id > old
          /\ \A i \in 1..Len(all) : nextFilterID' > all[i].ID

\* C11: after Filtering.Init on a loaded configuration (IDs zero or not,
\* below, at or above the seed of the counter), the IDs of the two sequences
\* are pairwise distinct, every filter loaded with ID 0 has an ID greater
\* than the seed and than every loaded ID, and the counter is greater than
\* every ID of the two sequences.
C11_UniqueIDsAfterInit == [][InitIDsStep]_vars

\* the positions of a sequence that hold the first entry of their URL
FirstOccurrences(fl) == {k \in 1..Len(fl) : \A j \in 1..(k - 1) : fl[j].URL # fl[k].URL}

\* the i-th smallest element of a set of positions
NthOf(K, i) == CHOOSE k \in K : Cardinality({j \in K : j <= k}) = i

\* the same filter, whatever was loaded from its file
SameFilter(a, b) ==
    a.ID = b.ID /\ a.URL = b.URL /\ a.Name = b.Name /\ a.Enabled = b.Enabled

\* Filtering.Init leaves of the blocklists the first entry of each URL, in
\* their order, and every entry of the allowlists
DedupStep ==
    (~started /\ started') =>
       LET b == loadFilters(Filters, nextFilterID, FALSE)
           w == loadFilters(WhitelistFilters, b.next, FALSE)
           K == FirstOccurrences(Filters)
       IN /\ Len(Filters') = Cardinality(K)
          /\ \A i \in 1..Len(Filters') : SameFilter(Filters'[i], b.array[NthOf(K, i)])
          /\ Len(WhitelistFilters') = Len(WhitelistFilters)
          /\ \A i \in 1..Len(WhitelistFilters') :
                SameFilter(WhitelistFilters'[i], w.array[i])

\* C12: deduplicateFilters leaves of a blocklist sequence exactly the first
\* occurrence of each URL, in the original relative order, and leaves the
\* allowlist sequence as it is.
C12_DedupKeepsFirst == [][DedupStep]_vars

\* of three blocklist entries u1, u2 and a repeated URL, loaded with the IDs
\* 1, 2 and 3, the first two are left
C12_Witness ==
    /\ started /\ nextFilterID = 4 /\ WhitelistFilters = <<>>
    /\ Len(Filters) = 2
    /\ Filters[1].ID = 1 /\ Filters[1].URL = "u1"
    /\ Filters[2].ID = 2 /\ Filters[2].URL = "u2"

\* the leading bytes of a stream that the validator looks at
StreamPrefix(reads) ==
    SubSeq(Concat(reads, 1), 1, Min(Len(Concat(reads, 1)), FirstChunkSize))

HasMarkup(p) == Contains(ToLower(p), StrHtml) \/ Contains(ToLower(p), StrDoctype)

\* a byte outside 0x20..0x7E other than \n, \r, \t
OutsideAscii(c) == ~((c >= 32 /\ c <= 126) \/ c \in {10, 13, 9})

\* a control byte other than \n, \r, \t: below 0x20, or 0x7f
ControlByte(c) == (c < 32 /\ c \notin {10, 13, 9}) \/ c = 127

\* the validator turned the stream down
Rejected(out) == out.err \in {"nonprintable", "html"}

\* the verdict on a stream that was read: a complete stream is rejected
\* exactly when its prefix is bad, and no stream with a bad prefix is taken
Verdict(reads, out, bad) ==
    /\ reads[Len(reads)].err = "EOF" => (Rejected(out) <=> bad)
    /\ bad => out.err # "nil"

ArrayReturnOf(p) ==
    /\ pc[p] = "batch"
    /\ bt[p].stage \in {"updB", "updW", "mrgB", "mrgW"}
    /\ bt'[p].stage = AfterArray(bt[p].stage)

\* the time of the attempt on the k-th candidate of a frame: the clock at
\* this step for the candidate the step updates, the time its snapshot
\* carries for the ones before
AttemptTime(f, k) ==
    IF f.stage \in {"updB", "updW"} /\ k = f.i THEN now ELSE f.uf[k].LastUpdated

LastUpdatedStep ==
    \A p \in Procs :
       ArrayReturnOf(p) =>
          LET f == bt[p]
              fl == IF OnAllow(f.stage) THEN WhitelistFilters' ELSE Filters'
          IN \A k \in 1..Len(f.uf), j \in 1..Len(fl) :
                (fl[j].ID = f.uf[k].ID /\ fl[j].URL = f.uf[k].URL) =>
                   fl[j].LastUpdated = AttemptTime(f, k)

\* C14: when refreshFiltersArray has returned for a sequence, every
\* candidate it attempted that matches an entry of the sequence by ID and
\* URL has the LastUpdated of that entry at the time of the attempt, whether
\* the attempt changed the filter, found no change or failed, also when every
\* candidate of the sequence failed.
C14_LastUpdatedAfterBatch == [][LastUpdatedStep]_vars

\* the counts and the checksums of a sequence
Cached(fl) == [j \in 1..Len(fl) |-> <<fl[j].RulesCount, fl[j].checksum>>]

\* an update that fails is flagged as not updated and changes no entry
FailedUpdateStep ==
    \A p \in Procs :
       (UpdateStepOf(p) /\ bt'[p].failed = bt[p].failed + 1) =>
          /\ Filters' = Filters /\ WhitelistFilters' = WhitelistFilters
          /\ bt'[p].stage = bt[p].stage => ~bt'[p].upd[bt[p].i]
          /\ bt'[p].stage \in {"mrgB", "mrgW"} => ~bt'[p].upd[bt[p].i]

\* the merge of a snapshot that is not flagged as updated changes no count
\* and no checksum
PlainMergeStep ==
    \A p \in Procs :
       (pc[p] = "batch" /\ bt[p].stage \in {"mrgB", "mrgW"} /\ bt'[p] # bt[p]
          /\ ~bt[p].upd[bt[p].i]) =>
          /\ Cached(Filters') = Cached(Filters)
          /\ Cached(WhitelistFilters') = Cached(WhitelistFilters)

\* C15 as stated, for a sequence whose candidates all failed: when
\* refreshFiltersArray has returned, the entries of the filters whose update
\* failed have RulesCount = 0 and checksum = 0.
C15_ClearedOnFailure ==
    [][\A p \in Procs :
          (ArrayReturnOf(p) /\ bt[p].stage \in {"updB", "updW"}) =>
             \A k \in 1..Len(bt[p].uf), j \in 1..Len(Filters') :
                (Filters'[j].ID = bt[p].uf[k].ID /\ Filters'[j].URL = bt[p].uf[k].URL) =>
                   Filters'[j].RulesCount = 0 /\ Filters'[j].checksum = 0]_vars

\* C15 amended: a refresh batch leaves RulesCount and checksum of the entry
\* of a filter whose update failed as they were: the failed update is
\* flagged as not updated and changes no entry, and the merge of a snapshot
\* flagged as not updated changes no count and no checksum.
C15_KeptOnFailure == [][FailedUpdateStep /\ PlainMergeStep]_vars

\* a batch of two attempts is over: the second filter was updated, the
\* attempt on the first one failed, and the first entry has the count and
\* the checksum of the list on disk
C15_Witness ==
    /\ pc["R1"] = "batch" /\ bt["R1"].stage = "fin"
    /\ bt["R1"].tried = 2 /\ bt["R1"].failed = 1 /\ bt["R1"].cnt = 1
    /\ Len(Filters) = 2
    /\ Filters[2].checksum # 0
    /\ Filters[1].checksum = Parsed[BodyTitled].checksum
    /\ Filters[1].RulesCount = 1

\* a step of the batch of p: only these change the frame of a batch
BatchStepOf(p) == pc[p] = "batch" /\ bt'[p] # bt[p]

\* the ID, URL and Enabled of the entries of a sequence, in order
Identity(fl) == [j \in 1..Len(fl) |-> <<fl[j].ID, fl[j].URL, fl[j].Enabled>>]

\* the entries of a sequence that a step changed are those that match the
\* snapshot by ID and URL
OnlyMatching(old, new, uf) ==
    \A j \in 1..Len(old) :
       new[j] # old[j] => (old[j].ID = uf.ID /\ old[j].URL = uf.URL)

BatchFrameStep ==
    \A p \in Procs :
       BatchStepOf(p) =>
          /\ Identity(Filters') = Identity(Filters)
          /\ Identity(WhitelistFilters') = Identity(WhitelistFilters)
          /\ IF bt[p].stage = "mrgB"
             THEN /\ WhitelistFilters' = WhitelistFilters
                  /\ OnlyMatching(Filters, Filters', bt[p].uf[bt[p].i])
             ELSE IF bt[p].stage = "mrgW"
             THEN /\ Filters' = Filters
                  /\ OnlyMatching(WhitelistFilters, WhitelistFilters', bt[p].uf[bt[p].i])
             ELSE Filters' = Filters /\ WhitelistFilters' = WhitelistFilters

\* C16: the fetch, validation and parse of a filter are steps in which the
\* registry is not touched and between which filterSetProperties can run;
\* the merge writes only into an entry of the same sequence whose ID and
\* URL are those of the snapshot, so that no entry is modified for a filter
\* whose URL was changed during the fetch; and every step of a batch leaves
\* ID, URL and Enabled of every entry, and the length and order of both
\* sequences, as they were.
C16_MergeMatchesSnapshot == [][BatchFrameStep]_vars

\* filterSetProperties changed the URL of the filter while its fetch ran:
\* the fetch committed a file, and the batch ended without an entry merged
C16_Witness ==
    /\ pc["R1"] = "batch" /\ bt["R1"].stage = "fin"
    /\ bt["R1"].tried = 1 /\ bt["R1"].failed = 0
    /\ bt["R1"].renamed /\ bt["R1"].cnt = 0
    /\ Filters[1].URL = "u3" /\ Filters[1].checksum = 0

\* the j-th entry of a sequence is turned on by the step, with its URL kept:
\* a step of filterSetProperties, whose status is then in ret
EnabledBy(old, new, j) ==
    /\ j \in 1..Len(old) /\ Len(new) = Len(old)
    /\ ~old[j].Enabled /\ new[j].Enabled /\ new[j].URL = old[j].URL

\* the entry after the step that turned it on and the status returned:
\* without a copy that loads, UpdateRequired and the cached values cleared;
\* with one, the values of the copy and no UpdateRequired
EnableOutcome(e, status) ==
    \/ /\ statusUpdateRequired \in status
       /\ e.RulesCount = 0 /\ e.checksum = 0 /\ e.LastUpdated = ZeroTime
    \/ /\ HasFile(files, e.ID)
       /\ statusUpdateRequired \notin status
       /\ e.RulesCount = parseFilterContents(files[e.ID].data).rulesCount
       /\ e.checksum = parseFilterContents(files[e.ID].data).checksum

EnableStep ==
    /\ \A j \in 1..Len(Filters) :
          EnabledBy(Filters, Filters', j) => EnableOutcome(Filters'[j], ret'.val)
    /\ \A j \in 1..Len(WhitelistFilters) :
          EnabledBy(WhitelistFilters, WhitelistFilters', j) =>
             EnableOutcome(WhitelistFilters'[j], ret'.val)

\* C17: when filterSetProperties turns Enabled on for a filter it found,
\* with the URL kept, and the copy on disk cannot be loaded (the file
\* removed from disk included), the status has UpdateRequired and the
\* entry's RulesCount, checksum and LastUpdated are cleared; when the load
\* succeeds, RulesCount and checksum are those of the copy and the status
\* has no UpdateRequired.
C17_EnableLoadsOrRequiresUpdate == [][EnableStep]_vars

\* a step of filterSetProperties: the only one that writes its name into ret
\* or keeps it there while the counter, the files, the clock and the
\* refreshes are as they were
SetPropertiesStep ==
    /\ ret'.op = "filterSetProperties"
    /\ UNCHANGED <<nextFilterID, started, files, now, updateIntervalHours, sched>>

\* C18: a call of filterSetProperties whose status has no Found flag (the
\* URL is not in the designated sequence, or the new URL is the URL of
\* another entry and URLExists is returned) leaves every field of every
\* entry as it was, the Name of the targeted entry included.
C18_NotFoundChangesNothing ==
    [][(SetPropertiesStep /\ statusFound \notin ret'.val) =>
          (Filters' = Filters /\ WhitelistFilters' = WhitelistFilters)]_vars

\* the entry has the checksum and the count of the file at its path
MatchesFile(e) ==
    /\ HasFile(files, e.ID)
    /\ Parsed[files[e.ID].data].checksum = e.checksum
    /\ Parsed[files[e.ID].data].rulesCount = e.RulesCount

\* C19: whenever no refresh batch is executing, every entry with a
\* checksum other than 0 has a file at its path whose content has that
\* checksum and that RulesCount, after any sequence of update attempts
\* (committed, unchanged, failed), merges and filterSetProperties calls.
C19_ChecksumMatchesFile ==
    (\A p \in Procs : pc[p] # "batch") =>
       \A j \in 1..Len(AllFilters) :
          AllFilters[j].checksum # 0 => MatchesFile(AllFilters[j])

\* every request that started has returned and the periodic loop sleeps
Quiescent == pc[Periodic] = "sleep" /\ \A r \in Requests : pc[r] = "idle"

\* C20: the flag is never left stuck: once every request that started has
\* returned and the periodic loop sleeps, refreshStatus is 0 and the batch
\* mutex is free (so that a later request that is not important runs), and
\* under fair scheduling every request that started returns.
C20_FlagNeverStuck ==
    /\ [](Quiescent => (refreshStatus = 0 /\ refreshLock = NoProc))
    /\ \A r \in Requests : (pc[r] # "idle") ~> (pc[r] = "idle")

\* all is quiet after the periodic loop ran a batch, one request ran its
\* batch and the other one was turned away
C20_Witness ==
    /\ Quiescent
    /\ intval # initialInterval
    /\ res["R1"].err = "nil" /\ res["R2"].err = "AlreadyRunning"
====
